---------------------------- MODULE Spec2Model ----------------------------
(***************************************************************************)
(* Model of the git-delta-tree provider (src/src/extension.ts): the reload *)
(* operation loadChangedFiles with its suspension points, the branch       *)
(* detection, the parsing of git's output, the materialisation of the      *)
(* tree in hierarchical and flat mode, the order in which getChildren      *)
(* shows it, and the command gitDeltaTree.openFile.                        *)
(*                                                                         *)
(* Text is a sequence of one-character strings, so that split, trim and    *)
(* join are computed as the code computes them.                            *)
(***************************************************************************)
EXTENDS Integers, Sequences, FiniteSets

VARIABLES
  tree,          \* rootNode.children, recursively: position (keys from the root) -> node
  mainBranch,    \* this.mainBranch
  showTreeView,  \* this.showTreeView
  pc,            \* per reload: the await it is suspended at, "idle" or "done"
  arg,           \* per reload: the branch name in the command line of its pending git call
  started,       \* number of loadChangedFiles calls started so far
  shown,         \* per reload: the user-facing messages it has shown, in order
  fired,         \* per reload: how often it fired _onDidChangeTreeData
  repo,          \* the repository and workspace the git commands run against
  changes,       \* number of changes made to the repository so far
  obs,           \* per reload: what it observed (history, for stating the claims)
  lastDone,      \* the reload that completed last (0: none yet)
  opened,        \* the gitDeltaTree.openFile invocations so far, in order
  input,         \* pure-function checks: the input drawn
  output         \* pure-function checks: the result computed

vars == <<tree, mainBranch, showTreeView, pc, arg, started, shown, fired,
          repo, changes, obs, lastDone, opened, input, output>>

---------------------------------------------------------------------------
(* Text *)

TAB == "\t"
NL == "\n"
SLASH == "/"
Whitespace == {" ", TAB, NL}

\* The value of an absent property or of a missing destructured element.
Undefined == <<"undefined">>

\* String.prototype.trim
RECURSIVE TrimStart(_)
TrimStart(s) ==
  IF s # <<>> /\ Head(s) \in Whitespace THEN TrimStart(Tail(s)) ELSE s

RECURSIVE TrimEnd(_)
TrimEnd(s) ==
  IF s # <<>> /\ s[Len(s)] \in Whitespace
  THEN TrimEnd(SubSeq(s, 1, Len(s) - 1))
  ELSE s

Trim(s) == TrimEnd(TrimStart(s))

\* String.prototype.split with a one-character separator
RECURSIVE Split(_, _)
Split(s, sep) ==
  IF \E i \in 1..Len(s) : s[i] = sep
  THEN LET i == CHOOSE k \in 1..Len(s) :
                  s[k] = sep /\ \A j \in 1..(k - 1) : s[j] # sep
       IN <<SubSeq(s, 1, i - 1)>> \o Split(SubSeq(s, i + 1, Len(s)), sep)
  ELSE <<s>>

\* Array.prototype.join with a one-character separator
RECURSIVE Join(_, _)
Join(parts, sep) ==
  IF parts = <<>> THEN <<>>
  ELSE IF Len(parts) = 1 THEN parts[1]
  ELSE parts[1] \o <<sep>> \o Join(Tail(parts), sep)

NonBlank(line) == Trim(line) # <<>>

\* Array.prototype.filter with the predicate (line) => line.trim()
RECURSIVE FilterNonBlank(_)
FilterNonBlank(xs) ==
  IF xs = <<>> THEN <<>>
  ELSE (IF NonBlank(Head(xs)) THEN <<Head(xs)>> ELSE <<>>) \o FilterNonBlank(Tail(xs))

\* stdout.trim().split('\n').filter((line) => line.trim())
OutputLines(stdout) == FilterNonBlank(Split(Trim(stdout), NL))

---------------------------------------------------------------------------
(* The tree: rootNode.children and the children maps below it.  A node is  *)
(* addressed by the keys on the way from the root; the root itself is <<>>.*)

EmptyTree == [p \in {} |-> 0]

IsPrefix(p, q) == Len(p) <= Len(q) /\ SubSeq(q, 1, Len(p)) = p

ChildrenOf(t, pos) ==
  {q \in DOMAIN t : Len(q) = Len(pos) + 1 /\ IsPrefix(pos, q)}

\* current.children.has(key)
HasChild(t, pos, key) == Append(pos, key) \in DOMAIN t

\* current.children.set(key, node): node comes with an empty children map,
\* so whatever hung below the old entry is no longer reachable.
SetChild(t, pos, key, node) ==
  LET q == Append(pos, key)
      keep == {r \in DOMAIN t : ~IsPrefix(q, r)}
  IN [r \in keep \cup {q} |-> IF r = q THEN node ELSE t[r]]

FolderNode(name, path, parent) ==
  [name |-> name, path |-> path, status |-> Undefined, isFile |-> FALSE,
   parent |-> parent]

\* Variant: a file node refers to the root as its parent.
FileNodeOfRoot(name, path, status, parent) ==
  [name |-> name, path |-> path, status |-> status, isFile |-> TRUE,
   parent |-> <<>>]

FileNode(name, path, status, parent) ==
  [name |-> name, path |-> path, status |-> status, isFile |-> TRUE,
   parent |-> parent]

\* Variant: a folder node is created for every segment, present or not.
RECURSIVE CreateFoldersAnew(_, _, _)
CreateFoldersAnew(t, parts, i) ==
  IF i = 0 THEN t
  ELSE LET t1 == CreateFoldersAnew(t, parts, i - 1)
           current == SubSeq(parts, 1, i - 1)
           part == parts[i]
       IN SetChild(t1, current, part,
                   FolderNode(part, Join(SubSeq(parts, 1, i), SLASH), current))

\* addFileToTree, the loop creating the folder structure for parts[1..i]
RECURSIVE CreateFolders(_, _, _)
CreateFolders(t, parts, i) ==
  IF i = 0 THEN t
  ELSE LET t1 == CreateFolders(t, parts, i - 1)
           current == SubSeq(parts, 1, i - 1)
           part == parts[i]
       IN IF HasChild(t1, current, part) THEN t1
          ELSE SetChild(t1, current, part,
                        FolderNode(part, Join(SubSeq(parts, 1, i), SLASH), current))

addFileToTree(t, filePath, status) ==
  LET parts == Split(filePath, SLASH)
      n == Len(parts)
      t1 == CreateFolders(t, parts, n - 1)
      current == SubSeq(parts, 1, n - 1)
  IN SetChild(t1, current, parts[n], FileNode(parts[n], filePath, status, current))

\* Variant: the tree is patched, records of files already shown are taken
\* as handled.
buildTreePatched(t, changedFiles) ==
  LET shownPaths == {tree[q].path : q \in DOMAIN tree}
      new == {i \in DOMAIN changedFiles : changedFiles[i].path \notin shownPaths}
      RECURSIVE Build(_, _)
      Build(u, i) ==
        IF i > Len(changedFiles) THEN u
        ELSE Build(IF i \in new
                   THEN addFileToTree(u, changedFiles[i].path, changedFiles[i].status)
                   ELSE u, i + 1)
  IN Build(t, 1)

RECURSIVE buildTreeFromChangedFiles(_, _)
buildTreeFromChangedFiles(t, changedFiles) ==
  IF changedFiles = <<>> THEN t
  ELSE buildTreeFromChangedFiles(
         addFileToTree(t, Head(changedFiles).path, Head(changedFiles).status),
         Tail(changedFiles))

\* Variant: the flat list is built like the hierarchy.
buildFlatListNested(t, changedFiles) == buildTreeFromChangedFiles(t, changedFiles)

RECURSIVE buildFlatListFromChangedFiles(_, _)
buildFlatListFromChangedFiles(t, changedFiles) ==
  IF changedFiles = <<>> THEN t
  ELSE LET file == Head(changedFiles)
       IN buildFlatListFromChangedFiles(
            SetChild(t, <<>>, file.path,
                     FileNode(file.path, file.path, file.status, <<>>)),
            Tail(changedFiles))

\* Variant: the listed files are put directly under the root.
RECURSIVE addFilesToRoot(_, _)
addFilesToRoot(t, files) ==
  IF files = <<>> THEN t
  ELSE addFilesToRoot(
         SetChild(t, <<>>, Head(files), FileNode(Head(files), Head(files), <<>>, <<>>)),
         Tail(files))

\* buildFullWorkspaceTree, the loop over the listed files
RECURSIVE addFilesToTree(_, _)
addFilesToTree(t, files) ==
  IF files = <<>> THEN t
  ELSE addFilesToTree(addFileToTree(t, Head(files), <<>>), Tail(files))

\* const [status, path] = line.split('\t'); return { path, status }
ParseLine(line) ==
  LET fields == Split(line, TAB)
  IN [path |-> IF Len(fields) >= 2 THEN fields[2] ELSE Undefined,
      status |-> fields[1]]

ParseLines(fileLines) == [i \in 1..Len(fileLines) |-> ParseLine(fileLines[i])]

\* getTreeItem: the icon chosen for a node
Icon(node) ==
  IF node.isFile /\ node.status # Undefined /\ node.status # <<>>
  THEN CASE node.status = <<"M">> -> "diff-modified"
         [] node.status = <<"A">> -> "diff-added"
         [] node.status = <<"D">> -> "diff-removed"
         [] node.status = <<"R">> -> "diff-renamed"
         [] OTHER -> "file"
  ELSE IF node.isFile THEN "file" ELSE "folder"

\* getTreeItem: whether the panel lets the user expand the node
Collapsible(node) == ~node.isFile

\* String.prototype.localeCompare for the characters that occur here, after
\* the root collation: the strings are compared letter by letter without
\* regard to case, punctuation before letters and a proper prefix before
\* the longer string; strings that differ only in case are then ordered
\* lower case first.
Collation == <<".", "/", "a", "b", "c", "d", "e", "m", "r", "s", "t">>

UpperCase == <<".", "/", "A", "B", "C", "D", "E", "M", "R", "S", "T">>

IsUpper(c) == \E i \in DOMAIN UpperCase : UpperCase[i] = c /\ Collation[i] # c

Primary(c) ==
  CHOOSE i \in DOMAIN Collation : c \in {Collation[i], UpperCase[i]}

Tertiary(c) == IF IsUpper(c) THEN 1 ELSE 0

\* -1, 0 or 1 as the weights a come before, with or after the weights b
RECURSIVE CompareWeights(_, _)
CompareWeights(a, b) ==
  IF a = <<>> THEN (IF b = <<>> THEN 0 ELSE -1)
  ELSE IF b = <<>> THEN 1
  ELSE IF Head(a) < Head(b) THEN -1
  ELSE IF Head(a) > Head(b) THEN 1
  ELSE CompareWeights(Tail(a), Tail(b))

localeCompare(a, b) ==
  LET primary == CompareWeights([i \in DOMAIN a |-> Primary(a[i])],
                                [i \in DOMAIN b |-> Primary(b[i])])
  IN IF primary # 0 THEN primary
     ELSE CompareWeights([i \in DOMAIN a |-> Tertiary(a[i])],
                         [i \in DOMAIN b |-> Tertiary(b[i])])

\* Variant: the comparison by name alone.
CompareByName(a, b) == localeCompare(a.name, b.name)

\* getChildren, the function given to sort
CompareNodes(a, b) ==
  IF a.isFile # b.isFile THEN (IF a.isFile THEN 1 ELSE -1)
  ELSE localeCompare(a.name, b.name)

\* Array.prototype.sort of the nodes at the positions in S.  The keys of a
\* children map are the names of its nodes, so no two nodes compare equal
\* and the order of insertion does not show in the result.
RECURSIVE Sorted(_, _)
Sorted(t, S) ==
  IF S = {} THEN <<>>
  ELSE LET first == CHOOSE q \in S :
                      \A r \in S \ {q} : CompareNodes(t[q], t[r]) < 0
       IN <<first>> \o Sorted(t, S \ {first})

\* getChildren: the positions of the children of the node at pos (of the
\* root for pos = <<>>), in the order the panel shows them.
getChildren(t, pos) == Sorted(t, ChildrenOf(t, pos))

---------------------------------------------------------------------------
(* The git command line tool, as the code invokes it: each command reads   *)
(* the repository when it returns and either exits non-zero with an error  *)
(* text or prints its output, one entry per line.                          *)

Unset == <<"unset">>

Master == <<"m", "a", "s", "t", "e", "r">>
Main == <<"m", "a", "i", "n">>
Dev == <<"d", "e", "v">>
Feat == <<"f", "t">>
BranchNames == {Master, Main, Dev, Feat}

PathA == <<"a">>
PathAB == <<"a", "/", "b">>
PathAC == <<"a", "/", "c">>
PathBAC == <<"b", "/", "a", "/", "c">>
PathD == <<"d">>

StatusM == <<"M">>
StatusA == <<"A">>
StatusD == <<"D">>
StatusR100 == <<"R", "1", "0", "0">>

\* One entry of a diff: a status field and the path, or for a rename the
\* old path and the new path.
DiffEntry(status, paths) == [status |-> status, paths |-> paths]

\* A line of 'git diff --name-status': the fields separated by tabs.
FormatEntry(e) == e.status \o <<TAB>> \o Join(e.paths, TAB) \o <<NL>>

RECURSIVE FormatDiff(_)
FormatDiff(entries) ==
  IF entries = <<>> THEN <<>>
  ELSE FormatEntry(Head(entries)) \o FormatDiff(Tail(entries))

\* The output of 'git ls-tree -r --name-only': one path per line.
RECURSIVE FormatList(_)
FormatList(files) ==
  IF files = <<>> THEN <<>>
  ELSE Head(files) \o <<NL>> \o FormatList(Tail(files))

\* The result of an execAsync call.
Ok(stdout) == [ok |-> TRUE, stdout |-> stdout, message |-> {}]
Failed(message) == [ok |-> FALSE, stdout |-> <<>>, message |-> message]

\* Phrases an error message may contain; message.includes(phrase) is
\* membership.  Older git versions print "Not a git repository", newer
\* ones "not a git repository".
NotRepoMessages == {{"Not a git repository"}, {"not a git repository"}}
AmbiguousMessage == {"fatal: ambiguous argument"}
OtherMessage == {"Command failed"}

Resolves(r, name) == r.isRepo /\ r.hasHead /\ name \in r.refs

\* The possible results of each command in repository r.
GitRevParseGitDir(r) ==
  IF r.isRepo THEN {Ok(<<".", "g", "i", "t", NL>>)}
  ELSE {Failed(m) : m \in NotRepoMessages}

GitRevParseHead(r) ==
  IF r.isRepo /\ r.hasHead THEN {Ok(<<"c", "0", NL>>)}
  ELSE {Failed(AmbiguousMessage)}

GitConfigGet(r) ==
  IF r.config # Unset THEN {Ok(r.config \o <<NL>>)} ELSE {Failed(OtherMessage)}

GitRevParseVerify(r, name) ==
  IF Resolves(r, name) THEN {Ok(<<"c", "0", NL>>)} ELSE {Failed(OtherMessage)}

GitRevParseAbbrevRef(r) ==
  IF r.isRepo /\ r.hasHead /\ r.head # Unset THEN {Ok(r.head \o <<NL>>)}
  ELSE {Failed(AmbiguousMessage)}

GitDiffNameStatus(r, name) ==
  IF ~r.isRepo THEN {Failed(m) : m \in NotRepoMessages}
  ELSE IF Resolves(r, name) THEN {Ok(FormatDiff(r.diff[name]))}
  ELSE {Failed(AmbiguousMessage)}

GitLsTree(r, name) ==
  IF ~r.isRepo THEN {Failed(m) : m \in NotRepoMessages}
  ELSE IF Resolves(r, name) THEN {Ok(FormatList(r.tracked[name]))}
  ELSE {Failed(OtherMessage)}

---------------------------------------------------------------------------
(* Bounds and the repositories the checks run against *)

MaxReloads == 2
MaxChanges == 1
MaxRecords == 2
MaxOpens == 1

Reloads == 1..MaxReloads

Repository(workspace, isRepo, hasHead, config, refs, head, diff, tracked) ==
  [workspace |-> workspace, isRepo |-> isRepo, hasHead |-> hasHead,
   config |-> config, refs |-> refs, head |-> head, diff |-> diff,
   tracked |-> tracked]

NoDiff == [b \in BranchNames |-> <<>>]

\* Relative to master and main the branch modified a/b and added a/c.
WorkDiff ==
  [b \in BranchNames |->
     IF b \in {Master, Main}
     THEN <<DiffEntry(StatusM, <<PathAB>>), DiffEntry(StatusA, <<PathAC>>)>>
     ELSE <<>>]

Tracked ==
  [b \in BranchNames |->
     IF b = Feat THEN <<PathAB, PathAC, PathD>> ELSE <<PathAB, PathD>>]

\* On a feature branch off master, nothing committed yet.
RepoClean ==
  Repository(TRUE, TRUE, TRUE, Unset, {Master, Feat}, Feat, NoDiff, Tracked)
\* Work committed on the feature branch; meanwhile main was created and
\* made the default branch.
RepoWork ==
  Repository(TRUE, TRUE, TRUE, Main, {Master, Main, Feat}, Feat, WorkDiff, Tracked)
\* Only the feature branch exists; init.defaultBranch names no branch.
RepoFeat ==
  Repository(TRUE, TRUE, TRUE, Dev, {Feat}, Feat, NoDiff, Tracked)
\* A repository without commits.
RepoNoCommits ==
  Repository(TRUE, TRUE, FALSE, Unset, {}, Unset, NoDiff, Tracked)
\* A folder that is no repository.
RepoNone ==
  Repository(TRUE, FALSE, FALSE, Unset, {}, Unset, NoDiff, Tracked)
\* No workspace folder open.
RepoNoWorkspace ==
  Repository(FALSE, FALSE, FALSE, Unset, {}, Unset, NoDiff, Tracked)

Repos == {RepoClean, RepoWork, RepoFeat, RepoNoCommits, RepoNone, RepoNoWorkspace}

\* How the folder changes while the extension runs: git init, the first
\* commit, work committed or undone, branches deleted, .git removed.
Evolutions ==
  {<<RepoNone, RepoNoCommits>>, <<RepoNoCommits, RepoClean>>,
   <<RepoClean, RepoWork>>, <<RepoWork, RepoClean>>,
   <<RepoClean, RepoFeat>>, <<RepoWork, RepoFeat>>,
   <<RepoClean, RepoNone>>, <<RepoWork, RepoNone>>, <<RepoFeat, RepoNone>>}

\* Every combination of the facts detectMainBranch asks about.
DetectRepos ==
  {Repository(TRUE, TRUE, hasHead, config,
              refs \cup (IF head = Unset THEN {} ELSE {head}), head,
              WorkDiff, Tracked) :
     hasHead \in BOOLEAN, config \in {Unset, <<>>, Dev, Main},
     refs \in SUBSET {Dev, Master, Main}, head \in {Unset, Feat}}

---------------------------------------------------------------------------
(* The provider *)

InFlight(p) == pc[p] \notin {"idle", "done"}

NoObs ==
  [before |-> EmptyTree, seen |-> {}, after |-> EmptyTree,
   overlapped |-> FALSE, cmds |-> <<>>,
   mode |-> "unread", diffOut |-> Unset, lsOut |-> Unset, branch |-> Unset,
   outcome |-> "none"]

\* History kept for every reload: the trees visible at its suspension
\* points and at its end, and whether another reload ran while it was in
\* flight.  p is the
\* reload taking the step (0 for a step of the environment), o the history
\* with the step's own entries made.
Observe(p, o) ==
  [q \in Reloads |->
     [o[q] EXCEPT
        !.seen = IF pc'[q] \notin {"idle", "done"} THEN @ \cup {tree'} ELSE @,
        !.after = IF pc[q] # "done" /\ pc'[q] = "done" THEN tree' ELSE @,
        !.overlapped =
          \/ @
          \/ q = p /\ \E r \in Reloads \ {p} : InFlight(r)
          \/ q # p /\ p # 0 /\ InFlight(q)]]

Warning(text) == [kind |-> "warning", text |-> text]
Error(text) == [kind |-> "error", text |-> text]

\* The message the catch block of loadChangedFiles shows for an error.
FailureMessage(message) ==
  IF "Not a git repository" \in message
  THEN Warning("Git Delta Tree: Not in a git repository")
  ELSE IF "No commits found" \in message
  THEN Warning("Git Delta Tree: No commits found in repository")
  ELSE IF "fatal: ambiguous argument" \in message
  THEN Warning("Git Delta Tree: No commits found or branch not found")
  ELSE Error("Git Delta Tree: Failed to load changed files")

\* Variant: the catch block does not clear the tree.
CatchKeepsTree(p, message, o) ==
  /\ tree' = tree
  /\ shown' = [shown EXCEPT ![p] = Append(@, FailureMessage(message))]
  /\ fired' = [fired EXCEPT ![p] = @ + 1]
  /\ pc' = [pc EXCEPT ![p] = "done"]
  /\ lastDone' = p
  /\ UNCHANGED <<mainBranch, arg>>
  /\ obs' = Observe(p, [o EXCEPT ![p].outcome = "failed"])

\* The catch block of loadChangedFiles.
Catch(p, message, o) ==
  /\ tree' = EmptyTree
  /\ shown' = [shown EXCEPT ![p] = Append(@, FailureMessage(message))]
  /\ fired' = [fired EXCEPT ![p] = @ + 1]
  /\ pc' = [pc EXCEPT ![p] = "done"]
  /\ lastDone' = p
  /\ UNCHANGED <<mainBranch, arg>>
  /\ obs' = Observe(p, [o EXCEPT ![p].outcome = "failed"])

\* Variant: the reload ends without the change notification.
EndWithoutFire(p) ==
  /\ pc' = [pc EXCEPT ![p] = "done"]
  /\ lastDone' = p
  /\ UNCHANGED <<shown, fired>>

\* The successful end of loadChangedFiles: the change notification.
Fire(p) ==
  /\ fired' = [fired EXCEPT ![p] = @ + 1]
  /\ pc' = [pc EXCEPT ![p] = "done"]
  /\ lastDone' = p
  /\ UNCHANGED shown

Invoked(o, p, cmd) == [o EXCEPT ![p].cmds = Append(@, cmd)]

\* loadChangedFiles up to its first await.
loadChangedFiles(p) ==
  IF repo.workspace
  THEN /\ pc' = [pc EXCEPT ![p] = "gitdir"]
       /\ UNCHANGED <<tree, shown, fired, lastDone>>
       /\ obs' = Observe(p, Invoked([obs EXCEPT ![p].before = tree], p,
                                    "rev-parse --git-dir"))
  ELSE /\ tree' = EmptyTree
       /\ shown' = [shown EXCEPT
                      ![p] = Append(@, Warning("Git Delta Tree: No workspace folder open"))]
       /\ fired' = [fired EXCEPT ![p] = @ + 1]
       /\ pc' = [pc EXCEPT ![p] = "done"]
       /\ lastDone' = p
       /\ obs' = Observe(p, [obs EXCEPT ![p].before = tree,
                                        ![p].outcome = "noWorkspace"])

refresh ==
  /\ started < MaxReloads
  /\ started' = started + 1
  /\ loadChangedFiles(started + 1)
  /\ UNCHANGED <<mainBranch, showTreeView, arg, repo, changes, opened, input,
                 output>>

toggleView ==
  /\ started < MaxReloads
  /\ started' = started + 1
  /\ showTreeView' = ~showTreeView
  /\ loadChangedFiles(started + 1)
  /\ UNCHANGED <<mainBranch, arg, repo, changes, opened, input, output>>

\* The user or another program changes the repository or the workspace.
RepoChange ==
  /\ changes < MaxChanges
  /\ changes' = changes + 1
  /\ \E r \in Repos : <<repo, r>> \in Evolutions /\ repo' = r
  /\ UNCHANGED <<tree, mainBranch, showTreeView, pc, arg, started, shown,
                 fired, lastDone, opened, input, output>>
  /\ obs' = Observe(0, obs)

\* What no continuation of a reload touches.
Frame ==
  UNCHANGED <<started, showTreeView, repo, changes, opened, input, output>>

\* A continuation that only issues the next git command.
Continue(p, next, cmd) ==
  /\ pc' = [pc EXCEPT ![p] = next]
  /\ UNCHANGED <<tree, mainBranch, shown, fired, lastDone>>
  /\ obs' = Observe(p, Invoked(obs, p, cmd))

\* detectMainBranch returns with this.mainBranch set; loadChangedFiles goes
\* on to build the 'git diff' command line from it.
Detected(p, branch) ==
  /\ mainBranch' = branch
  /\ pc' = [pc EXCEPT ![p] = "diff"]
  /\ arg' = [arg EXCEPT ![p] = branch]
  /\ UNCHANGED <<tree, shown, fired, lastDone>>
  /\ obs' = Observe(p, Invoked([obs EXCEPT ![p].branch = branch], p,
                               "diff --name-status"))

\* 'git rev-parse --git-dir' returned.
GitDirReturn(p) ==
  /\ pc[p] = "gitdir"
  /\ Frame
  /\ \E res \in GitRevParseGitDir(repo) :
       IF res.ok
       THEN Continue(p, "head", "rev-parse HEAD") /\ UNCHANGED arg
       ELSE Catch(p, res.message, obs)

\* Variant: the error of 'git rev-parse HEAD' is passed on as it is.
HeadReturnRethrows(p) ==
  /\ pc[p] = "head"
  /\ Frame
  /\ \E res \in GitRevParseHead(repo) :
       IF res.ok
       THEN Continue(p, "config", "config --get init.defaultBranch")
            /\ UNCHANGED arg
       ELSE Catch(p, res.message, obs)

\* detectMainBranch: 'git rev-parse HEAD' returned.
HeadReturn(p) ==
  /\ pc[p] = "head"
  /\ Frame
  /\ \E res \in GitRevParseHead(repo) :
       IF res.ok
       THEN Continue(p, "config", "config --get init.defaultBranch")
            /\ UNCHANGED arg
       ELSE Catch(p, {"No commits found"}, obs)

\* detectMainBranch: 'git config --get init.defaultBranch' returned.
ConfigReturn(p) ==
  /\ pc[p] = "config"
  /\ Frame
  /\ \E res \in GitConfigGet(repo) :
       IF res.ok /\ Trim(res.stdout) # <<>>
       THEN /\ arg' = [arg EXCEPT ![p] = Trim(res.stdout)]
            /\ Continue(p, "verifyConfig", "rev-parse --verify")
       ELSE /\ UNCHANGED arg
            /\ Continue(p, "verifyMaster", "rev-parse --verify")

\* detectMainBranch: 'git rev-parse --verify <configBranch>' returned.
VerifyConfigReturn(p) ==
  /\ pc[p] = "verifyConfig"
  /\ Frame
  /\ \E res \in GitRevParseVerify(repo, arg[p]) :
       IF res.ok
       THEN Detected(p, arg[p])
       ELSE Continue(p, "verifyMaster", "rev-parse --verify") /\ UNCHANGED arg

\* Variant: a master that does not resolve ends the detection with an error.
VerifyMasterReturnFatal(p) ==
  /\ pc[p] = "verifyMaster"
  /\ Frame
  /\ \E res \in GitRevParseVerify(repo, Master) :
       IF res.ok
       THEN Detected(p, Master)
       ELSE Catch(p, res.message, obs)

\* detectMainBranch: 'git rev-parse --verify master' returned.
VerifyMasterReturn(p) ==
  /\ pc[p] = "verifyMaster"
  /\ Frame
  /\ \E res \in GitRevParseVerify(repo, Master) :
       IF res.ok
       THEN Detected(p, Master)
       ELSE Continue(p, "verifyMain", "rev-parse --verify") /\ UNCHANGED arg

\* detectMainBranch: 'git rev-parse --verify main' returned.
VerifyMainReturn(p) ==
  /\ pc[p] = "verifyMain"
  /\ Frame
  /\ \E res \in GitRevParseVerify(repo, Main) :
       IF res.ok
       THEN Detected(p, Main)
       ELSE Continue(p, "abbrevRef", "rev-parse --abbrev-ref HEAD")
            /\ UNCHANGED arg

\* detectMainBranch: 'git rev-parse --abbrev-ref HEAD' returned.
AbbrevRefReturn(p) ==
  /\ pc[p] = "abbrevRef"
  /\ Frame
  /\ \E res \in GitRevParseAbbrevRef(repo) :
       IF res.ok THEN Detected(p, Trim(res.stdout)) ELSE Detected(p, Master)

ViewMode(treeView) == IF treeView THEN "tree" ELSE "flat"

\* Variant: zero changes start the full-tree fallback in either view mode.
DiffReturnAlwaysFallback(p) ==
  /\ pc[p] = "diff"
  /\ Frame
  /\ \E res \in GitDiffNameStatus(repo, arg[p]) :
       IF ~res.ok THEN Catch(p, res.message, obs)
       ELSE LET fileLines == OutputLines(res.stdout)
                o == [obs EXCEPT ![p].diffOut = res.stdout,
                                 ![p].mode = ViewMode(showTreeView),
                                 ![p].outcome = "ok"]
            IN /\ UNCHANGED mainBranch
               /\ IF fileLines = <<>>
                  THEN /\ tree' = EmptyTree
                       /\ pc' = [pc EXCEPT ![p] = "lsTree"]
                       /\ arg' = [arg EXCEPT ![p] = mainBranch]
                       /\ UNCHANGED <<shown, fired, lastDone>>
                       /\ obs' = Observe(p, Invoked(o, p, "ls-tree"))
                  ELSE /\ tree' =
                            IF showTreeView
                            THEN buildTreeFromChangedFiles(EmptyTree, ParseLines(fileLines))
                            ELSE buildFlatListFromChangedFiles(EmptyTree, ParseLines(fileLines))
                       /\ Fire(p)
                       /\ UNCHANGED arg
                       /\ obs' = Observe(p, o)

\* 'git diff --name-status <mainBranch>...HEAD' returned: the tree is
\* cleared and rebuilt, up to the await in buildFullWorkspaceTree.
DiffReturn(p) ==
  /\ pc[p] = "diff"
  /\ Frame
  /\ \E res \in GitDiffNameStatus(repo, arg[p]) :
       IF ~res.ok THEN Catch(p, res.message, obs)
       ELSE LET fileLines == OutputLines(res.stdout)
                o == [obs EXCEPT ![p].diffOut = res.stdout,
                                 ![p].mode = ViewMode(showTreeView),
                                 ![p].outcome = "ok"]
            IN /\ UNCHANGED mainBranch
               /\ IF fileLines = <<>>
                  THEN /\ tree' = EmptyTree
                       /\ IF showTreeView
                          THEN /\ pc' = [pc EXCEPT ![p] = "lsTree"]
                               /\ arg' = [arg EXCEPT ![p] = mainBranch]
                               /\ UNCHANGED <<shown, fired, lastDone>>
                               /\ obs' = Observe(p, Invoked(o, p, "ls-tree"))
                          ELSE /\ Fire(p)
                               /\ UNCHANGED arg
                               /\ obs' = Observe(p, o)
                  ELSE /\ tree' =
                            IF showTreeView
                            THEN buildTreeFromChangedFiles(EmptyTree, ParseLines(fileLines))
                            ELSE buildFlatListFromChangedFiles(EmptyTree, ParseLines(fileLines))
                       /\ Fire(p)
                       /\ UNCHANGED arg
                       /\ obs' = Observe(p, o)

\* buildFullWorkspaceTree: 'git ls-tree -r --name-only <mainBranch>'
\* returned; a failure is logged and swallowed.
LsTreeReturn(p) ==
  /\ pc[p] = "lsTree"
  /\ Frame
  /\ \E res \in GitLsTree(repo, arg[p]) :
       /\ tree' = IF res.ok THEN addFilesToTree(tree, OutputLines(res.stdout))
                  ELSE tree
       /\ Fire(p)
       /\ UNCHANGED <<mainBranch, arg>>
       /\ obs' = Observe(p, [obs EXCEPT
                               ![p].lsOut = IF res.ok THEN res.stdout
                                            ELSE <<"failed">>])

\* An await of reload p completes and its continuation runs to the next await.
Step(p) ==
  \/ GitDirReturn(p)
  \/ HeadReturn(p)
  \/ ConfigReturn(p)
  \/ VerifyConfigReturn(p)
  \/ VerifyMasterReturn(p)
  \/ VerifyMainReturn(p)
  \/ AbbrevRefReturn(p)
  \/ DiffReturn(p)
  \/ LsTreeReturn(p)

\* The state after construction: the constructor has called
\* loadChangedFiles, which ran to its first await or to its early return.
Constructed(r) ==
  /\ repo = r
  /\ changes = 0
  /\ mainBranch = <<>>
  /\ showTreeView = TRUE
  /\ started = 1
  /\ arg = [p \in Reloads |-> <<>>]
  /\ opened = <<>>
  /\ input = <<>>
  /\ output = <<>>
  /\ IF r.workspace
     THEN /\ tree = EmptyTree
          /\ pc = [p \in Reloads |-> IF p = 1 THEN "gitdir" ELSE "idle"]
          /\ shown = [p \in Reloads |-> <<>>]
          /\ fired = [p \in Reloads |-> 0]
          /\ lastDone = 0
          /\ obs = [p \in Reloads |->
                      IF p = 1
                      THEN [NoObs EXCEPT !.seen = {EmptyTree},
                                         !.cmds = <<"rev-parse --git-dir">>]
                      ELSE NoObs]
     ELSE /\ tree = EmptyTree
          /\ pc = [p \in Reloads |-> IF p = 1 THEN "done" ELSE "idle"]
          /\ shown = [p \in Reloads |->
                        IF p = 1
                        THEN <<Warning("Git Delta Tree: No workspace folder open")>>
                        ELSE <<>>]
          /\ fired = [p \in Reloads |-> IF p = 1 THEN 1 ELSE 0]
          /\ lastDone = 1
          /\ obs = [p \in Reloads |->
                      IF p = 1 THEN [NoObs EXCEPT !.outcome = "noWorkspace"]
                      ELSE NoObs]

Init == \E r \in Repos : Constructed(r)

Next ==
  \/ refresh
  \/ toggleView
  \/ RepoChange
  \/ \E p \in Reloads : Step(p)

Spec == Init /\ [][Next]_vars

\* The awaits of loadChangedFiles and of the functions it calls.
Awaits ==
  {"gitdir", "head", "config", "verifyConfig", "verifyMaster", "verifyMain",
   "abbrevRef", "diff", "lsTree"}

\* The git command reload p awaits has returned and the event loop has run
\* the continuation: the reload has left the await.  Only Step(p) takes such
\* a step, and it can whenever p is in flight (ResumedIsStep).
Resumed(p) ==
  /\ InFlight(p)
  /\ \E next \in (Awaits \cup {"done"}) \ {pc[p]} : pc' = [pc EXCEPT ![p] = next]

\* Every git command that was started returns, and the continuation waiting
\* for it is run by the event loop.
Fairness == \A p \in Reloads : WF_pc(Resumed(p))

SpecFair == Init /\ [][Next]_vars /\ Fairness

\* One reload, started by the constructor, in each repository that
\* detectMainBranch can meet.
InitDetect == \E r \in DetectRepos : Constructed(r)

NextDetect == \E p \in Reloads : Step(p)

SpecDetect == InitDetect /\ [][NextDetect]_vars

---------------------------------------------------------------------------
(* The command gitDeltaTree.openFile *)

\* The paths the command is run with: a tree item passes element.path.
OpenPaths == {PathAB, PathD}

\* provider['mainBranch'] || 'master'
BranchOrMaster == IF mainBranch = <<>> THEN Master ELSE mainBranch

\* The handler up to its await of 'vscode.diff', or to its early return.
OpenStarted(filePath) ==
  /\ Len(opened) < MaxOpens
  /\ opened' =
       Append(opened,
              IF repo.workspace
              THEN [path |-> filePath, query |-> BranchOrMaster,
                    state |-> "diff", messages |-> <<>>]
              ELSE [path |-> filePath, query |-> Unset, state |-> "done",
                    messages |-> <<Error("No workspace folder open")>>])

\* Variant: the branch name the handler falls back to is stored in the
\* provider.
openFileStoresBranch(filePath) ==
  /\ OpenStarted(filePath)
  /\ mainBranch' = IF repo.workspace THEN BranchOrMaster ELSE mainBranch
  /\ UNCHANGED <<tree, showTreeView, pc, arg, started, shown, fired, repo,
                 changes, obs, lastDone, input, output>>

openFile(filePath) ==
  /\ OpenStarted(filePath)
  /\ UNCHANGED <<tree, mainBranch, showTreeView, pc, arg, started, shown,
                 fired, repo, changes, obs, lastDone, input, output>>

\* 'vscode.diff' returned or threw; the editor decides which.
DiffViewReturn(i) ==
  /\ i \in DOMAIN opened
  /\ opened[i].state = "diff"
  /\ \E ok \in BOOLEAN :
       opened' =
         [opened EXCEPT
            ![i].state = "done",
            ![i].messages =
              IF ok THEN @ ELSE Append(@, Error("Failed to open file diff"))]
  /\ UNCHANGED <<tree, mainBranch, showTreeView, pc, arg, started, shown,
                 fired, repo, changes, obs, lastDone, input, output>>

\* The provider with its commands, in a repository that stays as it is.
\* The command changes nothing the reloads read (C15_OpenFileFrame), so the
\* specification of the reloads under a changing repository leaves it out.
NextOpen ==
  \/ refresh
  \/ toggleView
  \/ \E p \in Reloads : Step(p)
  \/ \E filePath \in OpenPaths : openFile(filePath)
  \/ \E i \in 1..MaxOpens : DiffViewReturn(i)

SpecOpen == Init /\ [][NextOpen]_vars

---------------------------------------------------------------------------
(* Materialisation alone: loadChangedFiles from the output of 'git diff'   *)
(* to the tree, for every short diff git can print.                        *)

Paths == {PathA, PathAB, PathAC, PathBAC, PathD}

DiffEntries ==
  {DiffEntry(st, <<f>>) : st \in {StatusM, StatusA, StatusD}, f \in Paths}
  \cup {DiffEntry(StatusR100, <<PathAB, PathAC>>),
        DiffEntry(StatusR100, <<PathD, PathA>>),
        DiffEntry(StatusR100, <<PathAB, PathD>>)}

\* The path an entry is listed under: for a rename, the new path.
Destination(e) == e.paths[Len(e.paths)]

IsRename(e) == Len(e.paths) = 2

\* The file f lies below a directory named like the file d.
Below(d, f) == IsPrefix(Split(d, SLASH), Split(f, SLASH)) /\ d # f

\* What git can print: each path is listed once; the old path of a rename
\* is listed again only as added; a path and a path below it are listed
\* together only when one was deleted (or renamed away) to make room for
\* the other, which was added (or renamed to).
ValidDiff(es) ==
  /\ \A i, j \in 1..Len(es) :
       i # j =>
         /\ Destination(es[i]) # Destination(es[j])
         /\ IsRename(es[i]) /\ es[i].paths[1] = Destination(es[j])
              => es[j].status = StatusA
         /\ Below(Destination(es[i]), Destination(es[j]))
              => \/ es[i].status = StatusD /\ es[j].status \in {StatusA, StatusR100}
                 \/ es[j].status = StatusD /\ es[i].status \in {StatusA, StatusR100}
         /\ IsRename(es[i]) /\ Below(es[i].paths[1], Destination(es[j]))
              => es[j].status \in {StatusA, StatusR100}
         /\ IsRename(es[i]) /\ Below(Destination(es[j]), es[i].paths[1])
              => es[j].status \in {StatusA, StatusR100}

DiffLists ==
  {es \in UNION {[1..n -> DiffEntries] : n \in 1..MaxRecords} : ValidDiff(es)}

\* No reload was ever started.
Quiet ==
  /\ tree = EmptyTree
  /\ mainBranch = <<>>
  /\ showTreeView = TRUE
  /\ pc = [p \in Reloads |-> "idle"]
  /\ arg = [p \in Reloads |-> <<>>]
  /\ started = 0
  /\ shown = [p \in Reloads |-> <<>>]
  /\ fired = [p \in Reloads |-> 0]
  /\ repo = RepoClean
  /\ changes = 0
  /\ obs = [p \in Reloads |-> NoObs]
  /\ lastDone = 0
  /\ opened = <<>>

InitMaterialize ==
  /\ Quiet
  /\ input \in {[treeView |-> m, entries |-> es] : m \in BOOLEAN, es \in DiffLists}
  /\ output = <<>>

\* loadChangedFiles from the parsing of stdout to the built tree, for a
\* diff that lists changes.
Materialize ==
  /\ output = <<>>
  /\ LET fileLines == OutputLines(FormatDiff(input.entries))
         changedFiles == ParseLines(fileLines)
     IN output' =
          [changedFiles |-> changedFiles,
           tree |-> IF input.treeView
                    THEN buildTreeFromChangedFiles(EmptyTree, changedFiles)
                    ELSE buildFlatListFromChangedFiles(EmptyTree, changedFiles)]
  /\ UNCHANGED <<tree, mainBranch, showTreeView, pc, arg, started, shown,
                 fired, repo, changes, obs, lastDone, opened, input>>

NextMaterialize == Materialize

SpecMaterialize == InitMaterialize /\ [][NextMaterialize]_vars

---------------------------------------------------------------------------
(* Properties *)

NoneInFlight == \A p \in Reloads : ~InFlight(p)

\* C1: a reader of a reload that no other reload overlaps sees, at every
\* suspension point of the reload and after it, either the tree from
\* before the reload or the tree the reload ends with.
C1_OldOrNewTree ==
  \A p \in Reloads :
    (pc[p] = "done" /\ ~obs[p].overlapped)
      => obs[p].seen \subseteq {obs[p].before, obs[p].after}

\* The tree reload p builds from the git output it received, had it run alone.
Alone(p) ==
  IF obs[p].outcome # "ok" THEN EmptyTree
  ELSE LET fileLines == OutputLines(obs[p].diffOut)
       IN IF fileLines = <<>>
          THEN IF obs[p].mode = "tree" /\ obs[p].lsOut \notin {Unset, <<"failed">>}
               THEN addFilesToTree(EmptyTree, OutputLines(obs[p].lsOut))
               ELSE EmptyTree
          ELSE IF obs[p].mode = "tree"
               THEN buildTreeFromChangedFiles(EmptyTree, ParseLines(fileLines))
               ELSE buildFlatListFromChangedFiles(EmptyTree, ParseLines(fileLines))

\* C2: once overlapping reloads have all completed, the visible tree is
\* the tree the reload that completed last builds alone from its own git
\* output.
C2_LastReloadWins ==
  (NoneInFlight /\ lastDone # 0 /\ obs[lastDone].overlapped)
    => tree = Alone(lastDone)

\* The git command reload p awaits fails in the repository as it is.
AwaitedFails(p) ==
  \/ pc[p] = "gitdir" /\ \A res \in GitRevParseGitDir(repo) : ~res.ok
  \/ pc[p] = "head" /\ \A res \in GitRevParseHead(repo) : ~res.ok
  \/ pc[p] = "diff" /\ \A res \in GitDiffNameStatus(repo, arg[p]) : ~res.ok

\* C3: a step in which a reload fails (it starts without a workspace
\* folder, or the 'rev-parse --git-dir', 'rev-parse HEAD' or 'diff' it
\* awaits exits non-zero) ends the reload with an empty root, exactly one
\* message shown by it and the change notification fired once.
C3_FailureEndsEmpty ==
  [][\A p \in Reloads :
       (pc'[p] # pc[p] /\ (AwaitedFails(p) \/ (pc[p] = "idle" /\ ~repo.workspace)))
         => /\ pc'[p] = "done"
            /\ tree' = EmptyTree
            /\ Len(shown'[p]) = 1
            /\ shown'[p][1].kind \in {"warning", "error"}
            /\ fired[p] = 0 /\ fired'[p] = 1
            /\ \A q \in Reloads \ {p} : shown'[q] = shown[q] /\ fired'[q] = fired[q]]_vars

C3_Witness ==
  \E p \in Reloads :
    /\ pc[p] = "done"
    /\ obs[p].outcome = "failed"
    /\ obs[p].before # EmptyTree
    /\ tree = EmptyTree

\* The branch the documented order picks in repository r.
FirstSuccess(r) ==
  IF r.config # Unset /\ r.config \in r.refs THEN r.config
  ELSE IF Master \in r.refs THEN Master
  ELSE IF Main \in r.refs THEN Main
  ELSE IF r.head # Unset THEN r.head
  ELSE Master

\* C4: in a repository whose HEAD resolves, detectMainBranch always comes
\* to an end with mainBranch the first success in the order configured
\* default branch, master, main, current branch, literal master.
C4_ResolutionOrder ==
  \A p \in Reloads :
    (repo.hasHead /\ pc[p] \in {"diff", "lsTree", "done"})
      => /\ obs[p].branch = FirstSuccess(repo)
         /\ mainBranch = FirstSuccess(repo)

C4_Witness ==
  \E p \in Reloads :
    /\ pc[p] = "done"
    /\ repo.hasHead /\ repo.config = Unset
    /\ Master \notin repo.refs /\ Main \in repo.refs
    /\ mainBranch = Main

NoCommitsWarning == Warning("Git Delta Tree: No commits found in repository")

\* C5: when 'git rev-parse HEAD' fails, the reload ends in that step:
\* only 'rev-parse --git-dir' and 'rev-parse HEAD' were invoked, mainBranch
\* keeps its value, the tree is empty and the one message shown is the
\* 'No commits found' warning.
C5_NoCommits ==
  [][\A p \in Reloads :
       (pc[p] = "head" /\ pc'[p] # "head"
          /\ \A res \in GitRevParseHead(repo) : ~res.ok)
         => /\ pc'[p] = "done"
            /\ mainBranch' = mainBranch
            /\ tree' = EmptyTree
            /\ shown'[p] = <<NoCommitsWarning>>
            /\ fired'[p] = 1
            /\ obs'[p].cmds = <<"rev-parse --git-dir", "rev-parse HEAD">>]_vars

C5_Witness ==
  \E p \in Reloads :
    /\ pc[p] = "done"
    /\ shown[p] = <<NoCommitsWarning>>
    /\ obs[p].before # EmptyTree
    /\ tree = EmptyTree
    /\ mainBranch # <<>>

Records == output.changedFiles

RecordPaths == {Records[i].path : i \in DOMAIN Records}

\* C6: in hierarchical mode every file node has no children, and every
\* node that has children or stands for an intermediate path segment of a
\* record is a folder without status (stated for the diffs without
\* renames, whose records are the entries git printed).
C6_FilesAreLeaves ==
  (output # <<>> /\ input.treeView
     /\ \A i \in DOMAIN input.entries : ~IsRename(input.entries[i])) =>
    LET t == output.tree
    IN \A q \in DOMAIN t :
         /\ t[q].isFile => ChildrenOf(t, q) = {}
         /\ (\/ ChildrenOf(t, q) # {}
             \/ \E f \in RecordPaths : IsPrefix(q, Split(f, SLASH)) /\ q # Split(f, SLASH))
              => ~t[q].isFile /\ t[q].status = Undefined

\* The names on the way from the root to the node at q, following the
\* parent references.
RECURSIVE NamesFromRoot(_, _)
NamesFromRoot(t, q) ==
  IF q = <<>> \/ q \notin DOMAIN t \/ Len(t[q].parent) >= Len(q) THEN <<>>
  ELSE Append(NamesFromRoot(t, t[q].parent), t[q].name)

NoPathBelowAnother ==
  \A f, g \in RecordPaths : ~Below(f, g)

\* C7: in hierarchical mode each file node's path is the names from the
\* root to it joined by '/', and is the path of a record with the node's
\* status; no two children of a node share a name; and a folder is reused
\* by later records, so that (no record path lying below another) every
\* record keeps its file node.
C7_PathsAndSiblings ==
  (output # <<>> /\ input.treeView) =>
    LET t == output.tree
    IN /\ \A q \in DOMAIN t :
            t[q].isFile =>
              /\ t[q].path = Join(NamesFromRoot(t, q), SLASH)
              /\ \E i \in DOMAIN Records :
                   Records[i].path = t[q].path /\ Records[i].status = t[q].status
       /\ \A q1, q2 \in DOMAIN t :
            (q1 # q2 /\ t[q1].parent = t[q2].parent) => t[q1].name # t[q2].name
       /\ NoPathBelowAnother =>
            \A f \in RecordPaths :
              /\ Split(f, SLASH) \in DOMAIN t
              /\ t[Split(f, SLASH)].isFile
              /\ t[Split(f, SLASH)].path = f

C7_Witness ==
  /\ output # <<>> /\ input.treeView
  /\ Len(Records) = 2
  /\ <<<<"a">>, <<"b">>>> \in DOMAIN output.tree
  /\ <<<<"a">>, <<"c">>>> \in DOMAIN output.tree
  /\ ~output.tree[<<<<"a">>>>].isFile

\* C8: a rename line yields a record whose path is the new path and whose
\* status selects the renamed icon.
C8_RenameDestination ==
  output # <<>> =>
    \A i \in DOMAIN input.entries :
      IsRename(input.entries[i]) =>
        /\ i \in DOMAIN Records
        /\ Records[i].path = input.entries[i].paths[2]
        /\ Icon(FileNode(Records[i].path, Records[i].path, Records[i].status, <<>>))
             = "diff-renamed"

\* The status of the last record for path f.
LastStatus(f) ==
  LET i == CHOOSE k \in DOMAIN Records :
             Records[k].path = f /\ \A j \in DOMAIN Records : Records[j].path = f => j <= k
  IN Records[i].status

\* C9: in flat mode the root has exactly one child per distinct record
\* path, a file node named by the full path with the record's status, and
\* there is no other node.
C9_FlatList ==
  (output # <<>> /\ ~input.treeView) =>
    LET t == output.tree
    IN /\ DOMAIN t = {<<f>> : f \in RecordPaths}
       /\ Cardinality(ChildrenOf(t, <<>>)) = Cardinality(RecordPaths)
       /\ \A f \in RecordPaths :
            /\ t[<<f>>].isFile
            /\ t[<<f>>].name = f
            /\ t[<<f>>].path = f
            /\ t[<<f>>].status = LastStatus(f)
            /\ t[<<f>>].parent = <<>>
       /\ \A q \in DOMAIN t : t[q].isFile

C9_Witness ==
  /\ output # <<>> /\ ~input.treeView
  /\ Len(Records) = 2
  /\ <<PathBAC>> \in DOMAIN output.tree
  /\ <<PathAB>> \in DOMAIN output.tree

\* The positions on the way to the file at path f.
Prefixes(f) ==
  {SubSeq(Split(f, SLASH), 1, k) : k \in 1..Len(Split(f, SLASH))}

\* The structure of a set of tracked files: a status-less file node per
\* file, a folder node per directory.
FullTree(files) ==
  [q \in UNION {Prefixes(f) : f \in files} |->
     IF Join(q, SLASH) \in files
     THEN FileNode(q[Len(q)], Join(q, SLASH), <<>>, SubSeq(q, 1, Len(q) - 1))
     ELSE FolderNode(q[Len(q)], Join(q, SLASH), SubSeq(q, 1, Len(q) - 1))]

\* The paths 'git ls-tree -r --name-only <branch>' lists in repository r.
Listed(r, branch) ==
  IF r.isRepo /\ Resolves(r, branch)
  THEN {r.tracked[branch][i] : i \in DOMAIN r.tracked[branch]}
  ELSE {}

\* C10: a reload that found no changes in hierarchical mode and that no
\* other reload overlapped ends with the structure of the files ls-tree
\* lists for mainBranch, no node carrying a non-empty status.
C10_FullTreeFallback ==
  [][\A p \in Reloads :
       (pc[p] = "lsTree" /\ pc'[p] = "done" /\ ~obs'[p].overlapped)
         => /\ tree' = FullTree(Listed(repo, mainBranch))
            /\ \A q \in DOMAIN tree' : tree'[q].status \in {<<>>, Undefined}]_vars

C10_Witness ==
  \E p \in Reloads :
    /\ pc[p] = "done"
    /\ ~obs[p].overlapped
    /\ obs[p].lsOut \notin {Unset, <<"failed">>}
    /\ obs[p].before # EmptyTree
    /\ lastDone = p
    /\ <<<<"a">>, <<"b">>>> \in DOMAIN tree


\* The reloads that ended having read an empty 'git diff' in this mode.
ZeroChanges(p, mode) ==
  /\ pc[p] = "done"
  /\ obs[p].outcome = "ok"
  /\ obs[p].mode = mode
  /\ OutputLines(obs[p].diffOut) = <<>>

Ran(p, cmd) == \E i \in DOMAIN obs[p].cmds : obs[p].cmds[i] = cmd

\* C11: a reload that finds zero changes in Flat mode ends with a root
\* without children, never runs 'git ls-tree', shows no message and fires
\* the change notification.
C11_FlatZeroChanges ==
  \A p \in Reloads :
    ZeroChanges(p, "flat") =>
      /\ obs[p].after = EmptyTree
      /\ ~Ran(p, "ls-tree")
      /\ shown[p] = <<>>
      /\ fired[p] = 1

C11_Witness ==
  \E p \in Reloads : ZeroChanges(p, "flat") /\ obs[p].after = EmptyTree


Src == <<"s", "r", "c">>
ATs == <<"a", ".", "t", "s">>
BTs == <<"b", ".", "t", "s">>
Readme == <<"R", "E", "A", "D", "M", "E", ".", "m", "d">>

\* The records src/a.ts (M), src/b.ts (A), README.md (D), as 'git diff'
\* prints them, materialised in Hierarchical mode.
ScenarioTree ==
  LET stdout == FormatDiff(<<DiffEntry(StatusM, <<Src \o <<SLASH>> \o ATs>>),
                             DiffEntry(StatusA, <<Src \o <<SLASH>> \o BTs>>),
                             DiffEntry(StatusD, <<Readme>>)>>)
  IN buildTreeFromChangedFiles(EmptyTree, ParseLines(OutputLines(stdout)))

\* C12: getChildren returns every child of a node exactly once, folders
\* before files and nodes of one kind by ascending name; for the records
\* src/a.ts (M), src/b.ts (A), README.md (D) the root shows the folder src,
\* then the file README.md (D), and src shows a.ts (M), then b.ts (A).
C12_ChildOrder ==
  /\ output # <<>> =>
       \A pos \in DOMAIN output.tree \cup {<<>>} :
         LET t == output.tree
             cs == getChildren(t, pos)
         IN /\ {cs[i] : i \in DOMAIN cs} = ChildrenOf(t, pos)
            /\ Len(cs) = Cardinality(ChildrenOf(t, pos))
            /\ \A i, j \in DOMAIN cs :
                 i < j =>
                   /\ t[cs[i]].isFile => t[cs[j]].isFile
                   /\ t[cs[i]].isFile = t[cs[j]].isFile
                        => localeCompare(t[cs[i]].name, t[cs[j]].name) < 0
  /\ getChildren(ScenarioTree, <<>>) = << <<Src>>, <<Readme>> >>
  /\ ~ScenarioTree[<<Src>>].isFile
  /\ ScenarioTree[<<Readme>>].isFile /\ ScenarioTree[<<Readme>>].status = StatusD
  /\ getChildren(ScenarioTree, <<Src>>) = << <<Src, ATs>>, <<Src, BTs>> >>
  /\ ScenarioTree[<<Src, ATs>>].status = StatusM
  /\ ScenarioTree[<<Src, BTs>>].status = StatusA
  /\ getChildren(ScenarioTree, <<Readme>>) = <<>>

\* A root showing a folder before a file whose name comes first.
C12_Witness ==
  /\ output # <<>>
  /\ LET t == output.tree
         cs == getChildren(t, <<>>)
     IN \E i, j \in DOMAIN cs :
          /\ i < j
          /\ ~t[cs[i]].isFile /\ t[cs[j]].isFile
          /\ localeCompare(t[cs[j]].name, t[cs[i]].name) < 0


\* The paths of the children of the node at pos, as getChildren orders them.
ChildPaths(t, pos) ==
  LET cs == getChildren(t, pos) IN [i \in DOMAIN cs |-> t[cs[i]].path]

StructurallyEqual(t, u) ==
  /\ DOMAIN t = DOMAIN u
  /\ \A q \in DOMAIN t :
       /\ t[q].path = u[q].path
       /\ t[q].isFile = u[q].isFile
       /\ t[q].status = u[q].status
  /\ \A q \in DOMAIN t \cup {<<>>} : ChildPaths(t, q) = ChildPaths(u, q)

\* Reload q followed reload p, neither ran while another reload was in
\* flight, both read the view mode as the same and git printed the same.
Repeated(p, q) ==
  /\ q = p + 1
  /\ pc[p] = "done" /\ pc[q] = "done"
  /\ ~obs[p].overlapped /\ ~obs[q].overlapped
  /\ obs[p].mode # "unread" /\ obs[p].mode = obs[q].mode
  /\ obs[p].diffOut = obs[q].diffOut
  /\ obs[p].lsOut = obs[q].lsOut

\* C13: two successive reloads that do not overlap, run in the same view
\* mode and read the same output of git end with structurally equal trees:
\* the same node paths, the same isFile and status at every node and the
\* same order of children at every node.
C13_Idempotent ==
  \A p, q \in Reloads :
    Repeated(p, q) => StructurallyEqual(obs[p].after, obs[q].after)

C13_Witness ==
  \E p, q \in Reloads :
    /\ Repeated(p, q)
    /\ obs[q].after # EmptyTree
    /\ StructurallyEqual(obs[p].after, obs[q].after)


\* The 'git ls-tree' reload p awaits fails in the repository as it is.
FallbackFails(p) ==
  pc[p] = "lsTree" /\ \A res \in GitLsTree(repo, arg[p]) : ~res.ok

\* C14: a step in which the 'git ls-tree' of a reload that found zero
\* changes in Hierarchical mode fails ends the reload with an empty tree,
\* without any message shown by it and with the change notification fired
\* exactly once.
C14_FallbackFailureSwallowed ==
  [][\A p \in Reloads :
       (FallbackFails(p) /\ pc'[p] # pc[p])
         => /\ pc'[p] = "done"
            /\ tree' = EmptyTree
            /\ shown'[p] = <<>>
            /\ fired[p] = 0 /\ fired'[p] = 1]_vars


\* A step of the command gitDeltaTree.openFile, either half of it.
OpenFileStep == opened' # opened

\* C15: no step of openFile (it finds no workspace folder, it starts the
\* diff viewer, the viewer opens or fails) changes the tree, mainBranch or
\* the view mode or fires the change notification; an invocation that fails
\* has shown exactly one error message, one that succeeds none.
C15_OpenFileFrame ==
  [][OpenFileStep =>
       /\ UNCHANGED <<tree, mainBranch, showTreeView, fired, shown>>
       /\ \E i \in DOMAIN opened' :
            /\ \A k \in DOMAIN opened' \ {i} :
                 k \in DOMAIN opened /\ opened'[k] = opened[k]
            /\ opened'[i].state = "done" =>
                 /\ Len(opened'[i].messages) <= 1
                 /\ \A k \in DOMAIN opened'[i].messages :
                      opened'[i].messages[k].kind = "error"
                 /\ ~repo.workspace => Len(opened'[i].messages) = 1
            /\ opened'[i].state # "done" => opened'[i].messages = <<>>]_vars

\* A diff viewer failed for a file of a tree that is still shown.
C15_Witness ==
  \E i \in DOMAIN opened :
    /\ opened[i].state = "done"
    /\ Len(opened[i].messages) = 1
    /\ opened[i].query = mainBranch
    /\ tree # EmptyTree


\* The node at position q is in the children map of the node at Parent(q).
Parent(q) == SubSeq(q, 1, Len(q) - 1)

\* Following the parent references from q reaches the root within n steps.
RECURSIVE ReachesRoot(_, _, _)
ReachesRoot(t, q, n) ==
  \/ q = <<>>
  \/ /\ n > 0
     /\ q \in DOMAIN t
     /\ ReachesRoot(t, t[q].parent, n - 1)

\* C16: every node below the root refers, as its parent, to the node whose
\* children map holds it, under the key it was inserted with (its name),
\* and the parent references lead from every node to the root.
C16_ParentChain ==
  \A q \in DOMAIN tree :
    /\ tree[q].parent = Parent(q)
    /\ Parent(q) \in DOMAIN tree \cup {<<>>}
    /\ tree[q].name = q[Len(q)]
    /\ ReachesRoot(tree, q, Len(q))

\* A tree with a file two folders deep, built while reloads overlapped.
C16_Witness ==
  /\ \E q \in DOMAIN tree : Len(q) = 2 /\ tree[q].isFile
  /\ \E p \in Reloads : obs[p].overlapped


\* C17: whenever no reload is in flight and the view mode is Flat, the
\* root has only file children and the tree holds no folder node.
C17_ShapeMatchesMode ==
  (NoneInFlight /\ ViewMode(showTreeView) = "flat")
    => \A q \in DOMAIN tree : tree[q].isFile /\ Len(q) = 1


\* The nodes a user brings into view below pos: what getChildren returns
\* there and, for each node the panel lets the user expand, below it.
RECURSIVE Expand(_, _)
Expand(t, pos) ==
  LET cs == getChildren(t, pos)
  IN UNION {{cs[i]} \cup (IF Collapsible(t[cs[i]]) THEN Expand(t, cs[i]) ELSE {}) :
              i \in DOMAIN cs}

DistinctPaths ==
  \A i, j \in DOMAIN Records : i # j => Records[i].path # Records[j].path

\* C18: in Hierarchical mode, for records with distinct paths, the paths of
\* the file nodes reachable from the root by expanding expandable nodes
\* are exactly the paths of the records (stated for the diffs without
\* renames, whose records are the entries git printed).
C18_ChangedFilesReachable ==
  (/\ output # <<>> /\ input.treeView
   /\ DistinctPaths
   /\ \A i \in DOMAIN input.entries : ~IsRename(input.entries[i]))
    => LET t == output.tree
       IN {t[q].path : q \in {r \in Expand(t, <<>>) : t[r].isFile}} = RecordPaths


\* The steps Fairness speaks of are the steps of Step, which leave no await
\* without a continuation.
ResumedIsStep ==
  [][\A p \in Reloads :
       /\ Resumed(p) => Step(p)
       /\ InFlight(p) => pc[p] \in Awaits]_vars

\* C19: every reload that was started completes, and it fires the change
\* notification exactly once: not before its end, and once at its end on
\* the success path, the failure path and the path without workspace folder.
C19_ReloadCompletes ==
  /\ [](\A p \in Reloads : pc[p] # "done" => fired[p] = 0)
  /\ [](\A p \in Reloads : pc[p] = "done" => fired[p] = 1)
  /\ \A p \in Reloads : InFlight(p) ~> (pc[p] = "done" /\ fired[p] = 1)

\* Reloads have ended on the success path and on the failure path.
C19_Witness ==
  /\ NoneInFlight
  /\ \E p, q \in Reloads :
       /\ obs[p].outcome = "ok" /\ fired[p] = 1
       /\ obs[q].outcome = "failed" /\ fired[q] = 1


\* The branches named in the git commands whose output reload p put into
\* the tree: the 'git diff' it built the tree from and, after an empty
\* diff, the 'git ls-tree' it filled the tree from.
ComputedAgainst(p) ==
  {obs[p].branch} \cup (IF Ran(p, "ls-tree") THEN {arg[p]} ELSE {})

\* The reload that completed last wrote the visible tree.
WroteTree(p) ==
  /\ lastDone = p
  /\ obs[p].outcome = "ok"
  /\ obs[p].lsOut # <<"failed">>

\* C20: whenever no reload is in flight and the visible tree is not empty,
\* mainBranch, which openFile reads, is the branch the visible tree was
\* computed against.
C20_BranchOfVisibleTree ==
  \A p \in Reloads :
    (NoneInFlight /\ tree # EmptyTree /\ WroteTree(p))
      => ComputedAgainst(p) = {mainBranch}

===========================================================================
